---- MODULE Spec2Model ----
(***************************************************************************)
(* Model of optimizer_scripts/tools/replacing.py: the eight node-replacing *)
(* passes over an ONNX graph.  A graph is a record of repeated fields      *)
(* (node, input, output, initializer, value_info); every pass is one       *)
(* atomic action that runs the whole function: its scan loop, its removal  *)
(* loop and its trailing topological_sort.  A Python exception ends the    *)
(* pass where it is raised and leaves the graph as mutated so far.         *)
(***************************************************************************)
EXTENDS Integers, Sequences, FiniteSets, TLC

VARIABLES g, pre, last, status, ret

vars == <<g, pre, last, status, ret>>

(***************************************************************************)
(* Protobuf messages                                                       *)
(***************************************************************************)

\* TensorProto: float_data stands for the typed data field that holds the
\* values; otherwise raw_data holds them as little-endian float32 bytes.
make_tensor(n, d, vals) ==
    [name |-> n, dims |-> d, float_data |-> vals, raw_data |-> <<>>]

NoTensor == make_tensor("", <<>>, <<>>)

\* AttributeProto: a scalar int, a scalar float (held in units of 10^-5),
\* a list of ints, or a tensor.
AttrI(n, v) == [name |-> n, i |-> v, f |-> 0, ints |-> <<>>, t |-> NoTensor]
AttrF(n, v) == [name |-> n, i |-> 0, f |-> v, ints |-> <<>>, t |-> NoTensor]
AttrInts(n, v) == [name |-> n, i |-> 0, f |-> 0, ints |-> v, t |-> NoTensor]
AttrT(n, v) == [name |-> n, i |-> 0, f |-> 0, ints |-> <<>>, t |-> v]

\* onnx.helper.make_node
make_node(op, ins, outs, n, attrs) ==
    [op_type |-> op, name |-> n, input |-> ins, output |-> outs,
     attribute |-> attrs]

\* ValueInfoProto: a name and its shape; dim_value 0 is an unknown dimension.
make_value_info(n, d) == [name |-> n, dim |-> d]

(***************************************************************************)
(* Repeated-field operations                                               *)
(***************************************************************************)

Contains(s, v) == \E k \in 1..Len(s) : s[k] = v

FirstIndex(s, v) ==
    IF Contains(s, v) THEN CHOOSE k \in 1..Len(s) :
                               s[k] = v /\ \A j \in 1..(k-1) : s[j] # v
    ELSE 0

RemoveAt(s, k) == SubSeq(s, 1, k-1) \o SubSeq(s, k+1, Len(s))

\* repeated.remove(v): drops the first element equal to v.
RemoveFirst(s, v) == RemoveAt(s, FirstIndex(s, v))

\* repeated.pop(): drops the last element.
Pop(s) == SubSeq(s, 1, Len(s) - 1)

RECURSIVE SumSeq(_)
SumSeq(s) == IF Len(s) = 0 THEN 0 ELSE s[1] + SumSeq(Tail(s))

RECURSIVE Product(_)
Product(s) == IF Len(s) = 0 THEN 1 ELSE s[1] * Product(Tail(s))

Range(s) == {s[k] : k \in 1..Len(s)}

(***************************************************************************)
(* helper.py (lookup and construction service)                             *)
(***************************************************************************)

\* Index of the first node that lists name among its outputs; 0 is None.
find_node_by_output_name(gr, name) ==
    IF \E k \in 1..Len(gr.node) : Contains(gr.node[k].output, name)
    THEN CHOOSE k \in 1..Len(gr.node) :
             /\ Contains(gr.node[k].output, name)
             /\ \A j \in 1..(k-1) : ~Contains(gr.node[j].output, name)
    ELSE 0

FindByName(s, name) ==
    IF \E k \in 1..Len(s) : s[k].name = name
    THEN CHOOSE k \in 1..Len(s) :
             s[k].name = name /\ \A j \in 1..(k-1) : s[j].name # name
    ELSE 0

\* Index into g.value_info (intermediate values only); 0 is None.
find_value_by_name(gr, name) == FindByName(gr.value_info, name)

\* Index into g.input; 0 is None.
find_input_by_name(gr, name) == FindByName(gr.input, name)

\* Index into g.output; 0 is None.
find_output_by_name(gr, name) == FindByName(gr.output, name)

\* (size, shape) of a ValueInfo; only the shape is used by the passes.
find_size_shape_from_value(value) ==
    [size |-> Product(value.dim), shape |-> value.dim]

\* A Constant node named name, with the single output name, wrapping the
\* values reshaped to shape.
list_to_constant(name, shape, data) ==
    make_node("Constant", <<>>, <<name>>, name,
              <<AttrT("value", make_tensor(name, shape, data))>>)

(***************************************************************************)
(* other.topological_sort (the stabilizer): a stable dependency order.     *)
(* A name no node produces (graph input, initializer) is always available. *)
(***************************************************************************)

Produced(nodes) == UNION {Range(nodes[k].output) : k \in 1..Len(nodes)}

Ready(n, done, pending) ==
    \A k \in 1..Len(n.input) :
        n.input[k] \in Produced(done) \/ n.input[k] \notin Produced(pending)

RECURSIVE sort_nodes(_, _)
sort_nodes(done, pending) ==
    IF Len(pending) = 0 THEN done
    ELSE IF \E k \in 1..Len(pending) : Ready(pending[k], done, pending)
    THEN LET k == CHOOSE k \in 1..Len(pending) :
                      /\ Ready(pending[k], done, pending)
                      /\ \A j \in 1..(k-1) : ~Ready(pending[j], done, pending)
         IN sort_nodes(Append(done, pending[k]), RemoveAt(pending, k))
    ELSE done \o pending

topological_sort(gr) == [gr EXCEPT !.node = sort_nodes(<<>>, gr.node)]

(***************************************************************************)
(* Pass state: the graph, the node_to_remove list, and whether an          *)
(* exception has been raised.                                              *)
(***************************************************************************)

PassState(gr) == [g |-> gr, rm |-> <<>>, raised |-> FALSE]

Raise(st) == [st EXCEPT !.raised = TRUE]

\* for node in node_to_remove: g.node.remove(node)
\* (ValueError when no element equals node).
RECURSIVE remove_nodes(_, _)
remove_nodes(st, k) ==
    IF st.raised \/ k > Len(st.rm) THEN st
    ELSE IF ~Contains(st.g.node, st.rm[k]) THEN Raise(st)
    ELSE remove_nodes(
             [st EXCEPT !.g.node = RemoveFirst(st.g.node, st.rm[k])], k + 1)

\* The trailing topological_sort(g) of a pass that reaches it.
sorted(st) == IF st.raised THEN st ELSE [st EXCEPT !.g = topological_sort(st.g)]

(***************************************************************************)
(* replace_initializer_with_Constant                                       *)
(***************************************************************************)

NodeInputs(gr) == UNION {Range(gr.node[k].input) : k \in 1..Len(gr.node)}

\* Mutant of unused_initializer: the scan over the node inputs strikes
\* nothing off, so no initializer counts as consumed.
unused_initializer_all(gr) ==
    {gr.initializer[k].name : k \in 1..Len(gr.initializer)}

\* The initializer names no node lists among its inputs.
unused_initializer(gr) ==
    {gr.initializer[k].name : k \in 1..Len(gr.initializer)} \ NodeInputs(gr)

\* input_map = {i.name: i for i in g.input}: the last input of that name;
\* 0 when the key is absent (KeyError on lookup).
input_map(gr, name) ==
    IF \E k \in 1..Len(gr.input) : gr.input[k].name = name
    THEN CHOOSE k \in 1..Len(gr.input) :
             /\ gr.input[k].name = name
             /\ \A j \in (k+1)..Len(gr.input) : gr.input[j].name # name
    ELSE 0

\* One iteration of "for tensor in g.initializer"; im is the input_map and
\* unused the unused_initializer set, both built before the loop.
initializer_body(st, k, im, unused) ==
    LET tensor == st.g.initializer[k]
        vi == input_map(im, tensor.name)
        value_info == im.input[vi]
        new_node == make_node("Constant", <<>>, <<tensor.name>>, tensor.name,
                              <<AttrT("value", tensor)>>)
    IN IF tensor.name \in unused
       THEN IF vi = 0 \/ ~Contains(st.g.input, value_info) THEN Raise(st)
            ELSE [st EXCEPT !.g.input = RemoveFirst(st.g.input, value_info)]
       ELSE LET st1 == [st EXCEPT !.g.node = Append(st.g.node, new_node)]
            IN IF vi = 0 THEN Raise(st1)
               ELSE LET st2 == [st1 EXCEPT !.g.value_info =
                                    Append(st1.g.value_info, value_info)]
                    IN IF ~Contains(st2.g.input, value_info) THEN Raise(st2)
                       ELSE [st2 EXCEPT !.g.input =
                                 RemoveFirst(st2.g.input, value_info)]

RECURSIVE initializer_loop(_, _, _, _)
initializer_loop(st, k, im, unused) ==
    IF st.raised \/ k > Len(st.g.initializer) THEN st
    ELSE initializer_loop(initializer_body(st, k, im, unused), k + 1, im, unused)

replace_initializer_with_Constant(gr) ==
    LET st == initializer_loop(PassState(gr), 1, gr, unused_initializer(gr))
    IN IF st.raised THEN st ELSE [st EXCEPT !.g.initializer = <<>>]

(***************************************************************************)
(* replace_Reshape_with_Flatten                                            *)
(***************************************************************************)

\* Mutant of followed_by_Gemm: the op_type test is lost, any consumer counts.
followed_by_any(gr, node) ==
    \E k \in 1..Len(gr.node) :
        /\ Len(gr.node[k].input) # 0
        /\ gr.node[k].input[1] = node.output[1]

\* "Flatten must be followed by Gemm": some node whose first input is the
\* Reshape's first output is a Gemm.
followed_by_Gemm(gr, node) ==
    \E k \in 1..Len(gr.node) :
        /\ Len(gr.node[k].input) # 0
        /\ gr.node[k].input[1] = node.output[1]
        /\ gr.node[k].op_type = "Gemm"

reshape_body(st, i) ==
    LET node == st.g.node[i]
    IN IF node.op_type # "Reshape" THEN st
       ELSE IF ~followed_by_Gemm(st.g, node) THEN st
       ELSE IF Len(node.input) < 2 THEN Raise(st)
       ELSE LET sn == find_node_by_output_name(st.g, node.input[2])
            IN IF sn = 0 THEN Raise(st)
               ELSE LET shape_node == st.g.node[sn]
                    IN IF shape_node.op_type # "Constant" THEN st
                       ELSE LET sv == find_value_by_name(st.g, shape_node.output[1])
                                st1 == [st EXCEPT
                                          !.g.node[i].op_type = "Flatten",
                                          !.g.node[i].attribute = <<>>,
                                          !.g.node[i].input = Pop(node.input),
                                          !.rm = Append(st.rm, shape_node)]
                            IN IF sv = 0 THEN Raise(st1)
                               ELSE [st1 EXCEPT !.g.value_info =
                                         RemoveAt(st1.g.value_info, sv)]

RECURSIVE reshape_loop(_, _)
reshape_loop(st, i) ==
    IF st.raised \/ i > Len(st.g.node) THEN st
    ELSE reshape_loop(reshape_body(st, i), i + 1)

replace_Reshape_with_Flatten(gr) ==
    remove_nodes(reshape_loop(PassState(gr), 1), 1)

(***************************************************************************)
(* replace_Squeeze_with_Reshape, replace_Unsqueeze_with_Reshape            *)
(***************************************************************************)

\* The loop body shared by the two passes; op is 'Squeeze' or 'Unsqueeze'.
squeeze_body(st, i, op) ==
    LET node == st.g.node[i]
        vi == find_value_by_name(st.g, node.output[1])
        oi == find_output_by_name(st.g, node.output[1])
        shape == IF vi # 0 THEN st.g.value_info[vi].dim ELSE st.g.output[oi].dim
        const_node == list_to_constant(node.name \o "_shape", <<Len(shape)>>, shape)
        new_node == make_node("Reshape", <<node.input[1], node.name \o "_shape">>,
                              node.output, node.name, <<>>)
    IN IF node.op_type # op THEN st
       ELSE IF vi = 0 /\ oi = 0 THEN Raise(st)
       ELSE [st EXCEPT !.g.node = st.g.node \o <<const_node, new_node>>,
                       !.rm = Append(st.rm, node)]

RECURSIVE squeeze_loop(_, _, _)
squeeze_loop(st, i, op) ==
    IF st.raised \/ i > Len(st.g.node) THEN st
    ELSE squeeze_loop(squeeze_body(st, i, op), i + 1, op)

replace_Squeeze_with_Reshape(gr) ==
    sorted(remove_nodes(squeeze_loop(PassState(gr), 1, "Squeeze"), 1))

replace_Unsqueeze_with_Reshape(gr) ==
    sorted(remove_nodes(squeeze_loop(PassState(gr), 1, "Unsqueeze"), 1))

(***************************************************************************)
(* replace_average_pool_with_GAP                                           *)
(***************************************************************************)

\* input_shape[-2:]
Last2(s) == IF Len(s) <= 2 THEN s ELSE SubSeq(s, Len(s) - 1, Len(s))

\* The attribute scan: any pads other than [0,0,0,0], or a kernel_shape
\* whose input has no value_info or other trailing dimensions.
not_replace(gr, node) ==
    \E k \in 1..Len(node.attribute) :
        LET attr == node.attribute[k]
            vi == find_value_by_name(gr, node.input[1])
        IN \/ attr.name = "pads" /\ attr.ints # <<0, 0, 0, 0>>
           \/ /\ attr.name = "kernel_shape"
              /\ \/ vi = 0
                 \/ Last2(gr.value_info[vi].dim) # attr.ints

\* Mutant of gap_body: the replaced AveragePool is not queued for removal.
gap_body_keeps_pool(st, i) ==
    LET node == st.g.node[i]
        new_node == make_node("GlobalAveragePool", node.input, node.output,
                              node.name, <<>>)
    IN IF node.op_type # "AveragePool" THEN st
       ELSE IF not_replace(st.g, node) THEN st
       ELSE [st EXCEPT !.g.node = Append(st.g.node, new_node)]

gap_body(st, i) ==
    LET node == st.g.node[i]
        new_node == make_node("GlobalAveragePool", node.input, node.output,
                              node.name, <<>>)
    IN IF node.op_type # "AveragePool" THEN st
       ELSE IF not_replace(st.g, node) THEN st
       ELSE [st EXCEPT !.g.node = Append(st.g.node, new_node),
                       !.rm = Append(st.rm, node)]

RECURSIVE gap_loop(_, _)
gap_loop(st, i) ==
    IF st.raised \/ i > Len(st.g.node) THEN st
    ELSE gap_loop(gap_body(st, i), i + 1)

replace_average_pool_with_GAP(gr) ==
    sorted(remove_nodes(gap_loop(PassState(gr), 1), 1))

(***************************************************************************)
(* replace_dilated_conv                                                    *)
(***************************************************************************)

HasAttr(node, n) == \E k \in 1..Len(node.attribute) : node.attribute[k].name = n

\* The attribute a scan "for attr in node.attribute: if attr.name == n"
\* leaves bound (the last of that name), as does a dict built from the list.
LastAttr(node, n) ==
    node.attribute[CHOOSE k \in 1..Len(node.attribute) :
                       /\ node.attribute[k].name = n
                       /\ \A j \in (k+1)..Len(node.attribute) :
                              node.attribute[j].name # n]

has_dilations(node) ==
    \E k \in 1..Len(node.attribute) :
        node.attribute[k].name = "dilations" /\ node.attribute[k].ints # <<1, 1>>

has_strides(node) ==
    \E k \in 1..Len(node.attribute) :
        node.attribute[k].name = "strides" /\ node.attribute[k].ints # <<1, 1>>

Pow2(n) == 2 ^ n

\* struct.unpack('f', b0 b1 b2 b3): a little-endian IEEE-754 single whose
\* value is an integer (the values the model's tensors hold).
unpack_f(b0, b1, b2, b3) ==
    LET sign == b3 \div 128
        e == (b3 % 128) * 2 + (b2 \div 128)
        m == (b2 % 128) * 65536 + b1 * 256 + b0
        mag == IF e = 0 THEN 0
               ELSE IF e >= 150 THEN (8388608 + m) * Pow2(e - 150)
               ELSE (8388608 + m) \div Pow2(150 - e)
    IN IF sign = 1 THEN 0 - mag ELSE mag

\* [i[0] for i in struct.iter_unpack('f', raw_data)]
iter_unpack(raw) ==
    [k \in 1..(Len(raw) \div 4) |->
        unpack_f(raw[4*k - 3], raw[4*k - 2], raw[4*k - 1], raw[4*k])]

\* The weight values, from float_data or, when that is empty, raw_data.
weight_of(t) == IF Len(t.float_data) # 0 THEN t.float_data ELSE iter_unpack(t.raw_data)

new_shape_of(shape, dilations) ==
    [shape EXCEPT ![3] = 1 + (shape[3] - 1) * dilations[1],
                  ![4] = 1 + (shape[4] - 1) * dilations[2]]

\* The four nested loops, one tap per step: q is the row-major position of
\* (batch, ch, h, w) in the old weight, whose value goes to
\* new_weight[batch, ch, h * dilations[0], w * dilations[1]].
RECURSIVE expand_taps(_, _, _, _, _, _)
expand_taps(new_weight, weight, shape, new_shape, dilations, q) ==
    IF q >= Product(shape) THEN new_weight
    ELSE LET w == q % shape[4]
             h == (q \div shape[4]) % shape[3]
             bc == q \div (shape[4] * shape[3])
             nh == h * dilations[1]
             nw == w * dilations[2]
             p == (bc * new_shape[3] + nh) * new_shape[4] + nw
         IN expand_taps([new_weight EXCEPT ![p + 1] = weight[q + 1]],
                        weight, shape, new_shape, dilations, q + 1)

\* new_weight.ravel()
expanded_weight(weight, shape, dilations) ==
    LET ns == new_shape_of(shape, dilations)
    IN expand_taps([p \in 1..Product(ns) |-> 0], weight, shape, ns, dilations, 0)

\* "Modify attributes": kernel_shape and dilations of the Conv.
conv_attrs_after(node, new_shape) ==
    [k \in 1..Len(node.attribute) |->
        LET attr == node.attribute[k]
        IN IF attr.name = "kernel_shape"
           THEN [attr EXCEPT !.ints[1] = new_shape[3], !.ints[2] = new_shape[4]]
           ELSE IF attr.name = "dilations"
           THEN [attr EXCEPT !.ints[1] = 1, !.ints[2] = 1]
           ELSE attr]

dilated_body(st, i) ==
    LET node == st.g.node[i]
    IN IF node.op_type # "Conv" THEN st
       ELSE IF has_dilations(node) /\ has_strides(node) THEN st
       ELSE IF ~has_dilations(node) THEN st
       ELSE
       LET dilations == LastAttr(node, "dilations").ints
           wn == find_node_by_output_name(st.g, node.input[2])
           wo == find_value_by_name(st.g, node.input[2])
       IN IF wn = 0 \/ Len(st.g.node[wn].attribute) = 0 THEN Raise(st)
          ELSE
          LET w_node == st.g.node[wn]
              t == w_node.attribute[1].t
              shape == t.dims
              weight == weight_of(t)
          IN IF \/ Len(t.float_data) = 0 /\ Len(t.raw_data) % 4 # 0
                \/ Len(weight) # Product(shape)
                \/ Len(shape) # 4 \/ Len(dilations) < 2
             THEN Raise(st)
             ELSE
             LET new_shape == new_shape_of(shape, dilations)
                 tensor == make_tensor(t.name, new_shape,
                                       expanded_weight(weight, shape, dilations))
                 new_w_node == make_node("Constant", <<>>, w_node.output,
                                         w_node.name, <<AttrT("value", tensor)>>)
                 st1 == [st EXCEPT !.g.node = Append(st.g.node, new_w_node),
                                   !.rm = Append(st.rm, w_node)]
             IN IF wo = 0 \/ Len(st.g.value_info[wo].dim) < 4 THEN Raise(st1)
                ELSE [st1 EXCEPT
                        !.g.value_info[wo].dim[3] = new_shape[3],
                        !.g.value_info[wo].dim[4] = new_shape[4],
                        !.g.node[i].attribute = conv_attrs_after(node, new_shape)]

RECURSIVE dilated_loop(_, _)
dilated_loop(st, i) ==
    IF st.raised \/ i > Len(st.g.node) THEN st
    ELSE dilated_loop(dilated_body(st, i), i + 1)

replace_dilated_conv(gr) ==
    remove_nodes(dilated_loop(PassState(gr), 1), 1)

(***************************************************************************)
(* replace_depthwise_1x1_with_bn                                           *)
(***************************************************************************)

\* Three dims.pop() calls; the pop of an empty field raises IndexError.
Pop3(s) == IF Len(s) >= 3 THEN SubSeq(s, 1, Len(s) - 3) ELSE <<>>

\* [v] * n
Repeat(v, n) == [k \in 1..n |-> v]

depthwise_body(st, i) ==
    LET node == st.g.node[i]
    IN IF node.op_type # "Conv" THEN st
       ELSE IF ~HasAttr(node, "group") \/ LastAttr(node, "group").i = 1 THEN st
       ELSE IF ~HasAttr(node, "kernel_shape") THEN Raise(st)
       ELSE IF \/ LastAttr(node, "kernel_shape").ints[1] # 1
               \/ LastAttr(node, "kernel_shape").ints[2] # 1 THEN st
       ELSE IF HasAttr(node, "pads") /\ SumSeq(LastAttr(node, "pads").ints) # 0
       THEN st
       ELSE
       LET group == LastAttr(node, "group").i
           sn == find_node_by_output_name(st.g, node.input[2])
       IN IF sn = 0 THEN st
          ELSE IF \/ Len(st.g.node[sn].attribute) = 0
                  \/ Len(st.g.node[sn].attribute[1].t.dims) < 2 THEN Raise(st)
          ELSE IF st.g.node[sn].attribute[1].t.dims[2] # 1 THEN st
          ELSE
          LET dims == st.g.node[sn].attribute[1].t.dims
              st1 == [st EXCEPT !.g.node[sn].attribute[1].t.dims = Pop3(dims)]
              si == find_value_by_name(st1.g, node.input[2])
              sdim == st1.g.value_info[si].dim
              st2 == IF si = 0 THEN st1
                     ELSE [st1 EXCEPT !.g.value_info[si].dim = Pop3(sdim)]
              has_bias == Len(node.input) = 3
              bias_name == IF has_bias THEN node.input[3] ELSE node.name \o "_bias"
              bias_node == list_to_constant(bias_name, <<group>>, Repeat(0, group))
              mean_name == node.name \o "_mean"
              mean_node == list_to_constant(mean_name, <<group>>, Repeat(0, group))
              var_name == node.name \o "_var"
              var_node == list_to_constant(var_name, <<group>>, Repeat(1, group))
              bn_node == make_node("BatchNormalization",
                                   <<node.input[1], node.input[2], bias_name,
                                     mean_name, var_name>>,
                                   node.output, node.name,
                                   <<AttrF("epsilon", 1), AttrF("momentum", 90000)>>)
              added == (IF has_bias THEN <<>> ELSE <<bias_node>>)
                       \o <<mean_node, var_node, bn_node>>
          IN IF Len(dims) < 3 THEN Raise(st1)
             ELSE IF si # 0 /\ Len(sdim) < 3 THEN Raise(st2)
             ELSE [st2 EXCEPT !.g.node = st2.g.node \o added,
                              !.rm = Append(st2.rm, node)]

RECURSIVE depthwise_loop(_, _)
depthwise_loop(st, i) ==
    IF st.raised \/ i > Len(st.g.node) THEN st
    ELSE depthwise_loop(depthwise_body(st, i), i + 1)

replace_depthwise_1x1_with_bn(gr) ==
    sorted(remove_nodes(depthwise_loop(PassState(gr), 1), 1))

(***************************************************************************)
(* replace_shape_with_constant                                             *)
(***************************************************************************)

\* sum([input_value.name in node.input for node in g.node])
val_info_used(gr, name) ==
    Cardinality({k \in 1..Len(gr.node) : Contains(gr.node[k].input, name)})

shape_body(st, i) ==
    LET node == st.g.node[i]
        vi == find_value_by_name(st.g, node.input[1])
        ii == find_input_by_name(st.g, node.input[1])
        input_value == IF vi # 0 THEN st.g.value_info[vi] ELSE st.g.input[ii]
    IN IF node.op_type # "Shape" THEN st
       ELSE IF (vi = 0 /\ ii = 0) \/ Len(input_value.dim) = 0 THEN st
       ELSE
       LET input_shape == input_value.dim
           new_node == list_to_constant(node.output[1], <<Len(input_shape)>>,
                                        input_shape)
           st1 == [st EXCEPT !.g.node = Append(st.g.node, new_node),
                             !.rm = Append(st.rm, node)]
       IN IF val_info_used(st1.g, input_value.name) = 1
          THEN IF ~Contains(st1.g.value_info, input_value) THEN Raise(st1)
               ELSE [st1 EXCEPT !.g.value_info =
                         RemoveFirst(st1.g.value_info, input_value)]
          ELSE st1

RECURSIVE shape_loop(_, _)
shape_loop(st, i) ==
    IF st.raised \/ i > Len(st.g.node) THEN st
    ELSE shape_loop(shape_body(st, i), i + 1)

\* The pass state with the return value: replaced = len(node_to_remove) > 0.
replace_shape_with_constant(gr) ==
    sorted(remove_nodes(shape_loop(PassState(gr), 1), 1))

\* The value the pass returns.
replaced(st) == Len(st.rm) > 0

(***************************************************************************)
(* replace_split_with_slices                                               *)
(***************************************************************************)

\* "split is not []": an identity test against a fresh list object, which
\* no object is.
is_not_empty_list(split) == TRUE

slice_node(node, name, axis, starts, ends) ==
    make_node("Slice", <<node.input[1]>>, <<name>>, name,
              <<AttrInts("axes", <<axis>>), AttrInts("ends", <<ends>>),
                AttrInts("starts", <<starts>>)>>)

\* The explicit-sizes loop: sizes are node.attribute[1].ints.
RECURSIVE explicit_slices(_, _, _, _, _, _)
explicit_slices(st, node, sizes, axis, pos, k) ==
    IF st.raised \/ k > Len(sizes) THEN st
    ELSE IF k > Len(node.output) THEN Raise(st)
    ELSE explicit_slices(
             [st EXCEPT !.g.node = Append(st.g.node,
                  slice_node(node, node.output[k], axis, pos, pos + sizes[k]))],
             node, sizes, axis, pos + sizes[k], k + 1)

\* The even-split loop.
RECURSIVE even_slices(_, _, _, _, _)
even_slices(st, node, axis, width, k) ==
    IF k > Len(node.output) THEN st
    ELSE even_slices(
             [st EXCEPT !.g.node = Append(st.g.node,
                  slice_node(node, node.output[k], axis,
                             (k - 1) * width, k * width))],
             node, axis, width, k + 1)

split_body(st, i) ==
    LET node == st.g.node[i]
        vi == find_value_by_name(st.g, node.input[1])
        ii == find_input_by_name(st.g, node.input[1])
        input_value == IF vi # 0 THEN st.g.value_info[vi] ELSE st.g.input[ii]
    IN IF node.op_type # "Split" THEN st
       ELSE IF vi = 0 /\ ii = 0 THEN Raise(st)
       ELSE IF Len(find_size_shape_from_value(input_value).shape) = 0 THEN st
       ELSE
       LET axis == IF HasAttr(node, "axis") THEN LastAttr(node, "axis").i ELSE 0
           split == IF HasAttr(node, "split") THEN LastAttr(node, "split").ints
                    ELSE <<>>
       IN IF axis + 1 > Len(input_value.dim) THEN Raise(st)
          ELSE
          LET length == input_value.dim[axis + 1]
              done ==
                IF is_not_empty_list(split)
                THEN IF Len(node.attribute) < 2 THEN Raise(st)
                     ELSE explicit_slices(st, node, node.attribute[2].ints,
                                          axis, 0, 1)
                ELSE IF Len(node.output) = 0 THEN Raise(st)
                     ELSE even_slices(st, node, axis,
                                      length \div Len(node.output), 1)
          IN IF done.raised THEN done
             ELSE [done EXCEPT !.rm = Append(done.rm, node)]

RECURSIVE split_loop(_, _)
split_loop(st, i) ==
    IF st.raised \/ i > Len(st.g.node) THEN st
    ELSE split_loop(split_body(st, i), i + 1)

replace_split_with_slices(gr) ==
    sorted(remove_nodes(split_loop(PassState(gr), 1), 1))

(***************************************************************************)
(* Input graphs.  Every family is a set of well-formed graphs (unique      *)
(* output names, every input produced or declared, nodes in dependency     *)
(* order) around the pattern of one pass.                                  *)
(***************************************************************************)

\* Largest kernel height/width and largest dilation of the Conv family,
\* largest dimension of the Shape family, most outputs of a Split.
MaxKernel == 2
MaxDilation == 2
MaxDim == 2
MaxSplit == 3

Graph(nodes, inputs, outputs, inits, infos) ==
    [node |-> nodes, input |-> inputs, output |-> outputs,
     initializer |-> inits, value_info |-> infos]

Iota(n) == [k \in 1..n |-> k]

\* Concatenation of a sequence of sequences.
RECURSIVE Flat(_)
Flat(ss) == IF Len(ss) = 0 THEN <<>> ELSE ss[1] \o Flat(Tail(ss))

Opt(b, x) == IF b THEN <<x>> ELSE <<>>

RECURSIVE Log2(_)
Log2(v) == IF v <= 1 THEN 0 ELSE 1 + Log2(v \div 2)

\* struct.pack('f', v) for an integer v >= 0: the four little-endian bytes.
pack_f(v) ==
    IF v = 0 THEN <<0, 0, 0, 0>>
    ELSE LET e == Log2(v)
             E == e + 127
             m == (v - Pow2(e)) * Pow2(23 - e)
         IN <<m % 256, (m \div 256) % 256,
              (E % 2) * 128 + (m \div 65536), E \div 2>>

\* A tensor whose values are stored as raw bytes.
raw_tensor(n, d, vals) ==
    [name |-> n, dims |-> d, float_data |-> <<>>,
     raw_data |-> Flat([k \in 1..Len(vals) |-> pack_f(vals[k])])]

Relu(n, in, out) == make_node("Relu", <<in>>, <<out>>, n, <<>>)

\* Initializers W and B beside the data input X; a Gemm consumes some of
\* them, and an initializer may lack its graph input entry.
InitializerGraphs ==
    { Graph(<<make_node("Gemm", <<"X">> \o ins, <<"Y">>, "gemm", <<>>)>>
              \o Opt(two, make_node("Add", <<"Y", "W">>, <<"Z">>, "add", <<>>)),
            <<make_value_info("X", <<1, 2>>)>>
              \o Opt(wIn, make_value_info("W", <<2, 2>>))
              \o Opt(bIn, make_value_info("B", <<2>>)),
            <<make_value_info(IF two THEN "Z" ELSE "Y", <<1, 2>>)>>,
            <<IF raw THEN raw_tensor("W", <<2, 2>>, <<1, 2, 3, 4>>)
                     ELSE make_tensor("W", <<2, 2>>, <<1, 2, 3, 4>>)>>
              \o Opt(hasB, make_tensor("B", <<2>>, <<5, 6>>)),
            Opt(two, make_value_info("Y", <<1, 2>>))) :
        ins \in {<<>>, <<"W">>, <<"W", "B">>}, two \in BOOLEAN,
        wIn \in BOOLEAN, bIn \in BOOLEAN, raw \in BOOLEAN, hasB \in BOOLEAN }

\* A producer of the shape operand S of a Reshape: a Constant node, a
\* computed value, or nothing (S is then a graph input).
ShapeProducer(kind, n) ==
    IF kind = "Constant" THEN <<list_to_constant(n, <<2>>, <<1, 4>>)>>
    ELSE IF kind = "Shape" THEN <<make_node("Shape", <<"X">>, <<n>>, n, <<>>)>>
    ELSE <<>>

\* Reshape R1 with one or two consumers, and optionally a second Reshape R2
\* that shares R1's shape operand or has its own.
ReshapeGraphs ==
    { LET sn == IF r2 = "own" THEN "S2" ELSE "S"
          has2 == r2 # "none"
      IN Graph(ShapeProducer(kind, "S")
                 \o Opt(r2 = "own", list_to_constant("S2", <<2>>, <<2, 2>>))
                 \o <<make_node("Reshape", <<"X", "S">>, <<"R1">>, "r1", <<>>),
                      make_node(c1, <<"R1">>, <<"Y1">>, "c1", <<>>)>>
                 \o Opt(c1b # "none", make_node(c1b, <<"R1">>, <<"Y1b">>, "c1b", <<>>))
                 \o Opt(has2, make_node("Reshape", <<"X", sn>>, <<"R2">>, "r2", <<>>))
                 \o Opt(has2, make_node(c2, <<"R2">>, <<"Y2">>, "c2", <<>>)),
               <<make_value_info("X", <<2, 2>>)>>
                 \o Opt(kind = "input", make_value_info("S", <<2>>)),
               <<make_value_info("Y1", <<1, 4>>)>>
                 \o Opt(c1b # "none", make_value_info("Y1b", <<1, 4>>))
                 \o Opt(has2, make_value_info("Y2", <<1, 4>>)),
               <<>>,
               Opt(kind # "input" /\ sInfo, make_value_info("S", <<2>>))
                 \o Opt(r2 = "own", make_value_info("S2", <<2>>))
                 \o <<make_value_info("R1", <<1, 4>>)>>
                 \o Opt(has2, make_value_info("R2", <<1, 4>>))) :
        kind \in {"Constant", "Shape", "input"}, sInfo \in BOOLEAN,
        c1 \in {"Gemm", "Relu"}, c1b \in {"none", "Gemm", "Relu"},
        r2 \in {"none", "shared", "own"}, c2 \in {"Gemm", "Relu"} }

\* A Squeeze or Unsqueeze whose output shape is an intermediate value_info,
\* a graph output, or unknown.
SqueezeGraphs ==
    { Graph(<<make_node(op, <<"X">>, <<"Q">>, "sq", <<AttrInts("axes", <<0>>)>>)>>
              \o Opt(where = "value_info", Relu("relu", "Q", "Y")),
            <<make_value_info("X", <<d, 2>>)>>,
            <<IF where = "value_info" THEN make_value_info("Y", shape)
              ELSE IF where = "output" THEN make_value_info("Q", shape)
              ELSE make_value_info("Q", <<>>)>>,
            <<>>,
            Opt(where = "value_info", make_value_info("Q", shape))) :
        op \in {"Squeeze", "Unsqueeze"}, d \in 1..MaxDim,
        where \in {"value_info", "output"},
        shape \in {<<2>>, <<1, 1, 2>>, <<0, 2>>} }
    \cup
    { Graph(<<make_node(op, <<"X">>, <<"Q">>, "sq", <<>>), Relu("relu", "Q", "Y")>>,
            <<make_value_info("X", <<1, 2>>)>>,
            <<make_value_info("Y", <<2>>)>>, <<>>, <<>>) :
        op \in {"Squeeze", "Unsqueeze"} }

\* An AveragePool over an intermediate value X, with or without pads and
\* kernel_shape, X with or without a value_info.
PoolGraphs ==
    { Graph(<<Relu("relu", "I", "X"),
              make_node("AveragePool", <<"X">>, <<"Y">>, "pool",
                        Opt(Len(pads) # 0, AttrInts("pads", pads))
                          \o Opt(Len(ks) # 0, AttrInts("kernel_shape", ks))
                          \o <<AttrInts("strides", <<1, 1>>)>>)>>,
            <<make_value_info("I", <<1, 1, d, d>>)>>,
            <<make_value_info("Y", <<1, 1, 1, 1>>)>>,
            <<>>,
            Opt(xInfo, make_value_info("X", <<1, 1, d, d>>))) :
        pads \in {<<>>, <<0, 0, 0, 0>>, <<0, 1, 0, 1>>},
        ks \in {<<>>, <<1, 1>>, <<2, 2>>, <<2, 1>>},
        d \in 1..MaxDim, xInfo \in BOOLEAN }

Dilations == {<<>>} \cup {<<dh, dw>> : dh \in 1..MaxDilation, dw \in 1..MaxDilation}

ConvAttrs(ks, dil, strides) ==
    <<AttrInts("kernel_shape", ks)>>
      \o Opt(Len(dil) # 0, AttrInts("dilations", dil))
      \o Opt(Len(strides) # 0, AttrInts("strides", strides))

\* The parameters of a Conv graph: weight channels cc = [Co, Ci], kernel
\* kh x kw, weight encoding, dilations and strides of the Conv, dilations
\* of a second Conv sharing the weight (none: no second Conv), and whether
\* the weight has a value_info.
ConvConfig(cc, kh, kw, raw, dil, strides, dil2, wInfo) ==
    [cc |-> cc, kh |-> kh, kw |-> kw, raw |-> raw, dil |-> dil,
     strides |-> strides, dil2 |-> dil2, wInfo |-> wInfo]

ConvConfigs ==
    {ConvConfig(cc, kh, kw, raw, dil, <<>>, <<>>, TRUE) :
        cc \in {<<1, 1>>, <<2, 1>>, <<1, 2>>},
        kh \in 1..MaxKernel, kw \in 1..MaxKernel, raw \in BOOLEAN,
        dil \in Dilations}
    \cup
    {ConvConfig(<<1, 1>>, kh, kw, FALSE, dil, strides, <<>>, TRUE) :
        kh \in 1..MaxKernel, kw \in 1..MaxKernel, dil \in Dilations,
        strides \in {<<1, 1>>, <<2, 2>>}}
    \cup
    {ConvConfig(<<1, 1>>, kh, kw, FALSE, dil, <<>>, dil2, wInfo) :
        kh \in 1..MaxKernel, kw \in 1..MaxKernel, dil \in Dilations,
        dil2 \in {<<>>, <<1, 1>>, <<2, 2>>}, wInfo \in BOOLEAN}

\* One or two Conv nodes fed by a weight Constant W of shape
\* [Co, Ci, Kh, Kw] holding 1, 2, 3, ...; a second Conv shares W.
DilatedGraphs ==
    { LET shape == <<c.cc[1], c.cc[2], c.kh, c.kw>>
          vals == Iota(Product(shape))
          t == IF c.raw THEN raw_tensor("W", shape, vals)
                        ELSE make_tensor("W", shape, vals)
          has2 == Len(c.dil2) # 0
      IN Graph(<<make_node("Constant", <<>>, <<"W">>, "W", <<AttrT("value", t)>>),
                 make_node("Conv", <<"X", "W">>, <<"Y">>, "conv",
                           ConvAttrs(<<c.kh, c.kw>>, c.dil, c.strides))>>
                 \o Opt(has2, make_node("Conv", <<"X", "W">>, <<"Y2">>, "conv2",
                                        ConvAttrs(<<c.kh, c.kw>>, c.dil2, <<>>))),
               <<make_value_info("X", <<1, c.cc[2], 5, 5>>)>>,
               <<make_value_info("Y", <<1, c.cc[1], 3, 3>>)>>
                 \o Opt(has2, make_value_info("Y2", <<1, c.cc[1], 3, 3>>)),
               <<>>,
               Opt(c.wInfo, make_value_info("W", shape))) :
        c \in ConvConfigs }

\* The parameters of a grouped-Conv graph: the group attribute (0: absent),
\* output channels per group, weight shape [group * mult, cpg, 1, 1], a
\* bias or none, kernel_shape, pads, a second Conv sharing the weight, and
\* whether the weight has a value_info.
GroupConfig(group, mult, cpg, bias, ks, pads, two, wInfo) ==
    [group |-> group, co |-> mult * (IF group = 0 THEN 1 ELSE group),
     ci |-> cpg * (IF group = 0 THEN 1 ELSE group), cpg |-> cpg,
     bias |-> bias, ks |-> ks, pads |-> pads, two |-> two, wInfo |-> wInfo]

GroupConfigs ==
    {GroupConfig(group, mult, cpg, bias, <<1, 1>>, <<>>, FALSE, TRUE) :
        group \in {0, 1, 2, 3}, mult \in {1, 2}, cpg \in {1, 2},
        bias \in BOOLEAN}
    \cup
    {GroupConfig(2, 1, 1, FALSE, ks, pads, FALSE, TRUE) :
        ks \in {<<1, 1>>, <<3, 3>>, <<1, 3>>},
        pads \in {<<0, 0, 0, 0>>, <<1, 1, 1, 1>>}}
    \cup
    {GroupConfig(2, mult, 1, FALSE, <<1, 1>>, <<>>, two, wInfo) :
        mult \in {1, 2}, two \in BOOLEAN, wInfo \in BOOLEAN}

\* A grouped Conv with a weight Constant W of shape [Co, cpg, 1, 1], with
\* or without a bias Constant B; optionally a second Conv shares W.
DepthwiseGraphs ==
    { Graph(<<list_to_constant("W", <<c.co, c.cpg, 1, 1>>, Iota(c.co * c.cpg))>>
              \o Opt(c.bias, list_to_constant("B", <<c.co>>, Iota(c.co)))
              \o <<make_node("Conv",
                             <<"X", "W">> \o Opt(c.bias, "B"), <<"Y">>, "conv",
                             <<AttrInts("kernel_shape", c.ks)>>
                               \o Opt(c.group # 0, AttrI("group", c.group))
                               \o Opt(Len(c.pads) # 0, AttrInts("pads", c.pads)))>>
              \o Opt(c.two, make_node("Conv", <<"X", "W">>, <<"Y2">>, "conv2",
                                      <<AttrInts("kernel_shape", c.ks),
                                        AttrI("group", c.group)>>)),
            <<make_value_info("X", <<1, c.ci, 2, 2>>)>>,
            <<make_value_info("Y", <<1, c.co, 2, 2>>)>>
              \o Opt(c.two, make_value_info("Y2", <<1, c.co, 2, 2>>)),
            <<>>,
            Opt(c.wInfo, make_value_info("W", <<c.co, c.cpg, 1, 1>>))
              \o Opt(c.bias, make_value_info("B", <<c.co>>))) :
        c \in GroupConfigs }

\* Shapes of a Shape operand: every dimension known, one unknown (0), or
\* no dimensions at all.
OperandShapes ==
    {<<>>} \cup {<<a, b>> : a \in 0..MaxDim, b \in 1..MaxDim}

\* A Shape node over an operand X that is an intermediate value (with or
\* without value_info) or a graph input; X may have other consumers.
ShapeGraphs ==
    { LET inter == where # "input"
          src == IF inter THEN "X" ELSE "I"
      IN Graph(Opt(inter, Relu("relu", "I", "X"))
                 \o <<make_node("Shape", <<src>>, <<"S">>, "shape", <<>>)>>
                 \o Opt(others = "relu", Relu("relu2", src, "Y"))
                 \o Opt(others = "shape", make_node("Shape", <<src>>, <<"S2">>, "shape2", <<>>))
                 \o Opt(others = "twice", make_node("Add", <<src, src>>, <<"Y">>, "add", <<>>)),
               <<make_value_info("I", dims)>>,
               <<make_value_info("S", <<Len(dims)>>)>>
                 \o Opt(others \in {"relu", "twice"}, make_value_info("Y", dims))
                 \o Opt(others = "shape", make_value_info("S2", <<Len(dims)>>)),
               <<>>,
               Opt(where = "value_info", make_value_info("X", dims))) :
        where \in {"value_info", "none", "input"},
        others \in {"none", "relu", "shape", "twice"},
        dims \in OperandShapes }

SplitAttrs(order, axis, sizes) ==
    IF order = "none" THEN <<>>
    ELSE IF order = "axis" THEN <<AttrI("axis", axis)>>
    ELSE IF order = "axis,split"
    THEN <<AttrI("axis", axis), AttrInts("split", sizes)>>
    ELSE IF order = "split,axis"
    THEN <<AttrInts("split", sizes), AttrI("axis", axis)>>
    ELSE <<AttrI("axis", axis), AttrI("num_outputs", Len(sizes))>>

\* The parameters of a Split graph: n outputs, the first size of the size
\* list (the others are 1), elements beyond the sizes' sum, the axis,
\* whether the operand has dimensions, where its shape is recorded, and
\* the attribute list.
SplitConfig(n, first, extra, axis, ranked, where, order) ==
    [n |-> n, first |-> first, extra |-> extra, axis |-> axis,
     ranked |-> ranked, where |-> where, order |-> order]

SplitOrders == {"none", "axis", "axis,split", "split,axis", "axis,num_outputs"}

SplitConfigs ==
    {SplitConfig(n, first, extra, 0, TRUE, "value_info", order) :
        n \in 2..MaxSplit, first \in {1, 2}, extra \in {0, 1},
        order \in SplitOrders}
    \cup
    {SplitConfig(n, 1, 0, axis, ranked, where, order) :
        n \in 2..MaxSplit, axis \in {0, 1}, ranked \in BOOLEAN,
        where \in {"value_info", "none", "input"},
        order \in {"axis", "axis,split", "split,axis"}}

\* A Split of X (a graph input or an intermediate value) along axis 0 or
\* 1 into n outputs, the first of them consumed by a Relu; the attributes
\* come in either order, and the size list may be absent.
SplitGraphs ==
    { LET outs == [k \in 1..c.n |-> IF k = 1 THEN "O1" ELSE IF k = 2 THEN "O2"
                                    ELSE IF k = 3 THEN "O3" ELSE "O4"]
          sizes == [k \in 1..c.n |-> IF k = 1 THEN c.first ELSE 1]
          total == SumSeq(sizes) + c.extra
          dims == IF ~c.ranked THEN <<>>
                  ELSE IF c.axis = 0 THEN <<total, 2>> ELSE <<2, total>>
          inter == c.where # "input"
          src == IF inter THEN "X" ELSE "I"
      IN Graph(Opt(inter, Relu("relu", "I", "X"))
                 \o <<make_node("Split", <<src>>, outs, "split",
                                SplitAttrs(c.order, c.axis, sizes)),
                      Relu("relu1", "O1", "Y")>>,
               <<make_value_info("I", dims)>>,
               <<make_value_info("Y", <<1, 1>>)>>,
               <<>>,
               Opt(c.where = "value_info", make_value_info("X", dims))) :
        c \in SplitConfigs }

(***************************************************************************)
(* Well-formedness of a graph                                              *)
(***************************************************************************)

Declared(gr) ==
    {gr.input[k].name : k \in 1..Len(gr.input)}
      \cup {gr.initializer[k].name : k \in 1..Len(gr.initializer)}

\* No dangling reference: every node input is a node output, an initializer
\* or a graph input.
NoDangling(gr) == NodeInputs(gr) \subseteq (Produced(gr.node) \cup Declared(gr))

\* No output name is produced by more than one node (or twice by one).
UniqueOutputs(gr) ==
    /\ \A j, k \in 1..Len(gr.node) :
           j # k => Range(gr.node[j].output) \cap Range(gr.node[k].output) = {}
    /\ \A k \in 1..Len(gr.node) :
           Cardinality(Range(gr.node[k].output)) = Len(gr.node[k].output)

WellFormed(gr) == NoDangling(gr) /\ UniqueOutputs(gr)

InputGraphs ==
    {gr \in InitializerGraphs \cup ReshapeGraphs \cup SqueezeGraphs
              \cup PoolGraphs \cup DilatedGraphs \cup DepthwiseGraphs
              \cup ShapeGraphs \cup SplitGraphs :
        WellFormed(gr) /\ gr.node = sort_nodes(<<>>, gr.node)}

(***************************************************************************)
(* The orchestrator: any pass may run on the graph while no pass has       *)
(* raised; a raised exception ends the run.                                *)
(***************************************************************************)

Init ==
    /\ g \in InputGraphs
    /\ pre = g
    /\ last = "none"
    /\ status = "ok"
    /\ ret = "None"

\* How a pass ended and what it returned.
Outcome(st) == IF st.raised THEN "raised" ELSE "ok"

Returned(st, value) == IF st.raised THEN "None" ELSE value

RunInitializer ==
    /\ status = "ok"
    /\ LET st == replace_initializer_with_Constant(g)
       IN /\ g' = st.g
          /\ pre' = g
          /\ last' = "replace_initializer_with_Constant"
          /\ status' = Outcome(st)
          /\ ret' = Returned(st, "None")

RunReshape ==
    /\ status = "ok"
    /\ LET st == replace_Reshape_with_Flatten(g)
       IN /\ g' = st.g
          /\ pre' = g
          /\ last' = "replace_Reshape_with_Flatten"
          /\ status' = Outcome(st)
          /\ ret' = Returned(st, "None")

RunSqueeze ==
    /\ status = "ok"
    /\ LET st == replace_Squeeze_with_Reshape(g)
       IN /\ g' = st.g
          /\ pre' = g
          /\ last' = "replace_Squeeze_with_Reshape"
          /\ status' = Outcome(st)
          /\ ret' = Returned(st, "None")

RunUnsqueeze ==
    /\ status = "ok"
    /\ LET st == replace_Unsqueeze_with_Reshape(g)
       IN /\ g' = st.g
          /\ pre' = g
          /\ last' = "replace_Unsqueeze_with_Reshape"
          /\ status' = Outcome(st)
          /\ ret' = Returned(st, "None")

RunGAP ==
    /\ status = "ok"
    /\ LET st == replace_average_pool_with_GAP(g)
       IN /\ g' = st.g
          /\ pre' = g
          /\ last' = "replace_average_pool_with_GAP"
          /\ status' = Outcome(st)
          /\ ret' = Returned(st, "None")

RunDilated ==
    /\ status = "ok"
    /\ LET st == replace_dilated_conv(g)
       IN /\ g' = st.g
          /\ pre' = g
          /\ last' = "replace_dilated_conv"
          /\ status' = Outcome(st)
          /\ ret' = Returned(st, "None")

RunDepthwise ==
    /\ status = "ok"
    /\ LET st == replace_depthwise_1x1_with_bn(g)
       IN /\ g' = st.g
          /\ pre' = g
          /\ last' = "replace_depthwise_1x1_with_bn"
          /\ status' = Outcome(st)
          /\ ret' = Returned(st, "None")

RunShape ==
    /\ status = "ok"
    /\ LET st == replace_shape_with_constant(g)
       IN /\ g' = st.g
          /\ pre' = g
          /\ last' = "replace_shape_with_constant"
          /\ status' = Outcome(st)
          /\ ret' = Returned(st, IF replaced(st) THEN "True" ELSE "False")

RunSplit ==
    /\ status = "ok"
    /\ LET st == replace_split_with_slices(g)
       IN /\ g' = st.g
          /\ pre' = g
          /\ last' = "replace_split_with_slices"
          /\ status' = Outcome(st)
          /\ ret' = Returned(st, "None")

Next ==
    \/ RunInitializer
    \/ RunReshape
    \/ RunSqueeze
    \/ RunUnsqueeze
    \/ RunGAP
    \/ RunDilated
    \/ RunDepthwise
    \/ RunShape
    \/ RunSplit

Spec == Init /\ [][Next]_vars

(***************************************************************************)
(* Properties                                                              *)
(***************************************************************************)

Completed(name) == last = name /\ status = "ok"

NodeNames(gr) == {gr.node[k].name : k \in 1..Len(gr.node)}

InputNames(gr) == {gr.input[k].name : k \in 1..Len(gr.input)}

\* The node of gr called name.
NodeNamed(gr, name) ==
    gr.node[CHOOSE k \in 1..Len(gr.node) : gr.node[k].name = name]

\* The node of gr that produces the value name.
Producer(gr, name) ==
    gr.node[CHOOSE k \in 1..Len(gr.node) : Contains(gr.node[k].output, name)]

\* C1: after any pass that returns on a well-formed graph (unique output
\* names, no dangling inputs), the stabilized graph is well-formed again:
\* every node input is the output of a node still in the graph, an
\* initializer or a graph input, and no output name has two producers.
C1_InvariantPreservation ==
    (last # "none" /\ status = "ok" /\ WellFormed(pre))
        => WellFormed(topological_sort(g))

\* The nodes of the graph after the pass that were not in the graph before
\* it and that produce at least one output of the node n, in node order.
Replacement(n) ==
    SelectSeq(g.node, LAMBDA m : /\ ~Contains(pre.node, m)
                                 /\ Range(m.output) \cap Range(n.output) # {})

OutputsOf(nodes) == Flat([k \in 1..Len(nodes) |-> nodes[k].output])

\* A node the last pass removed or rewrote in favour of a replacement: it
\* is gone from the node list as it was.  (The shape Constant that
\* replace_Reshape_with_Flatten drops has no replacement.)
Superseded(n) ==
    /\ Contains(pre.node, n)
    /\ ~Contains(g.node, n)
    /\ ~(last = "replace_Reshape_with_Flatten" /\ n.op_type = "Constant")

\* C2: output-name stability.  After any completed pass, the outputs of the
\* replacement of every superseded node, in order, are the outputs of that
\* node; for a Split the replacement is one Slice per output, the i-th
\* producing the i-th output name.
C2_OutputNameStability ==
    (last # "none" /\ status = "ok") =>
        \A k \in 1..Len(pre.node) :
            LET n == pre.node[k]
            IN Superseded(n) =>
                 /\ OutputsOf(Replacement(n)) = n.output
                 /\ n.op_type = "Split" =>
                      /\ Len(Replacement(n)) = Len(n.output)
                      /\ \A i \in 1..Len(Replacement(n)) :
                             /\ Replacement(n)[i].op_type = "Slice"
                             /\ Replacement(n)[i].output = <<n.output[i]>>

\* The Constant nodes of the graph that carry the name or produce the value
\* of the initializer t.
PromotedAs(t) ==
    {k \in 1..Len(g.node) :
        /\ g.node[k].op_type = "Constant"
        /\ g.node[k].name = t.name \/ Contains(g.node[k].output, t.name)}

\* C3: after replace_initializer_with_Constant completes, no initializer is
\* left; every initializer some node consumed has exactly one Constant node,
\* named as the initializer, with that name as its single output and the
\* tensor as its value, its ValueInfo is among the intermediate value_info
\* and it is no graph input any more; every initializer no node consumed has
\* lost its graph input and has no Constant node.
C3_InitializerPromotion ==
    Completed("replace_initializer_with_Constant") =>
        /\ g.initializer = <<>>
        /\ \A k \in 1..Len(pre.initializer) :
               LET t == pre.initializer[k]
               IN IF t.name \in NodeInputs(pre)
                  THEN /\ Cardinality(PromotedAs(t)) = 1
                       /\ \A j \in PromotedAs(t) :
                              /\ g.node[j].name = t.name
                              /\ g.node[j].input = <<>>
                              /\ g.node[j].output = <<t.name>>
                              /\ Len(g.node[j].attribute) = 1
                              /\ g.node[j].attribute[1].name = "value"
                              /\ g.node[j].attribute[1].t = t
                       /\ \E j \in 1..Len(pre.input) :
                              /\ pre.input[j].name = t.name
                              /\ Contains(g.value_info, pre.input[j])
                       /\ t.name \notin InputNames(g)
                  ELSE /\ PromotedAs(t) = {}
                       /\ t.name \notin InputNames(g)

\* A completed promotion of a graph with a consumed initializer (W) and
\* an initializer nothing consumes (B).
C3_Witness ==
    /\ Completed("replace_initializer_with_Constant")
    /\ \E j, k \in 1..Len(pre.initializer) :
           /\ pre.initializer[j].name \in NodeInputs(pre)
           /\ pre.initializer[k].name \notin NodeInputs(pre)
           /\ pre.initializer[j].raw_data # <<>>

\* A Conv the dilation expansion applies to: dilations [dh, dw] other than
\* [1, 1], strides absent or [1, 1], and a weight that a Constant node
\* produces with a shape [Co, Ci, Kh, Kw].
IsDilatedConv(gr, n) ==
    /\ n.op_type = "Conv"
    /\ has_dilations(n) /\ ~has_strides(n)
    /\ Len(LastAttr(n, "dilations").ints) = 2
    /\ Len(n.input) >= 2
    /\ find_node_by_output_name(gr, n.input[2]) # 0
    /\ Producer(gr, n.input[2]).op_type = "Constant"
    /\ Len(Producer(gr, n.input[2]).attribute[1].t.dims) = 4

\* The value of the 4-D tensor t at (co, ci, h, w), all counted from 0.
ValueAt(t, co, ci, h, w) ==
    weight_of(t)[((co * t.dims[2] + ci) * t.dims[3] + h) * t.dims[4] + w + 1]

\* C4: after replace_dilated_conv completes, for every Conv it applies to,
\* with dilations [dh, dw] and weight shape [Co, Ci, Kh, Kw]: the weight
\* Constant has shape [Co, Ci, 1+(Kh-1)*dh, 1+(Kw-1)*dw], holds the old
\* value of tap (h, w) at (h*dh, w*dw) and zero everywhere else, and the
\* Conv has kernel_shape [new_h, new_w] and dilations [1, 1].
C4_DilationExpansion ==
    Completed("replace_dilated_conv") =>
        \A k \in 1..Len(pre.node) :
            IsDilatedConv(pre, pre.node[k]) =>
                LET n == pre.node[k]
                    d == LastAttr(n, "dilations").ints
                    old == Producer(pre, n.input[2]).attribute[1].t
                    new_h == 1 + (old.dims[3] - 1) * d[1]
                    new_w == 1 + (old.dims[4] - 1) * d[2]
                    conv == NodeNamed(g, n.name)
                IN /\ find_node_by_output_name(g, n.input[2]) # 0
                   /\ Producer(g, n.input[2]).op_type = "Constant"
                   /\ LET new == Producer(g, n.input[2]).attribute[1].t
                      IN /\ new.dims = <<old.dims[1], old.dims[2], new_h, new_w>>
                         /\ Len(weight_of(new)) = Product(new.dims)
                         /\ \A co \in 0..(old.dims[1] - 1), ci \in 0..(old.dims[2] - 1),
                               y \in 0..(new_h - 1), x \in 0..(new_w - 1) :
                                ValueAt(new, co, ci, y, x) =
                                    IF y % d[1] = 0 /\ x % d[2] = 0
                                    THEN ValueAt(old, co, ci, y \div d[1], x \div d[2])
                                    ELSE 0
                   /\ conv.op_type = "Conv"
                   /\ LastAttr(conv, "kernel_shape").ints = <<new_h, new_w>>
                   /\ LastAttr(conv, "dilations").ints = <<1, 1>>

\* A completed expansion of a 2x2 kernel stored as raw bytes, dilated by
\* [2, 2]: the weight is now 3x3.
DilationExpansion_Example ==
    /\ Completed("replace_dilated_conv")
    /\ \E k \in 1..Len(pre.node) :
           /\ IsDilatedConv(pre, pre.node[k])
           /\ LastAttr(pre.node[k], "dilations").ints = <<2, 2>>
           /\ Producer(pre, "W").attribute[1].t.dims = <<1, 1, 2, 2>>
           /\ Producer(pre, "W").attribute[1].t.raw_data # <<>>
           /\ Producer(g, "W").attribute[1].t.float_data
                  = <<1, 0, 2, 0, 0, 0, 3, 0, 4>>

\* The ValueInfo a pass resolves for the value name: the intermediate
\* value_info if there is one, else the graph input.
OperandInfo(gr, name) ==
    IF find_value_by_name(gr, name) # 0
    THEN gr.value_info[find_value_by_name(gr, name)]
    ELSE gr.input[find_input_by_name(gr, name)]

HasOperandInfo(gr, name) ==
    find_value_by_name(gr, name) # 0 \/ find_input_by_name(gr, name) # 0

\* A Split with no explicit size list whose operand has a known length
\* along the split axis.
IsEvenSplit(gr, n) ==
    /\ n.op_type = "Split"
    /\ ~HasAttr(n, "split")
    /\ HasOperandInfo(gr, n.input[1])
    /\ LET axis == IF HasAttr(n, "axis") THEN LastAttr(n, "axis").i ELSE 0
       IN /\ axis + 1 <= Len(OperandInfo(gr, n.input[1]).dim)
          /\ OperandInfo(gr, n.input[1]).dim[axis + 1] > 0

\* C5: replace_split_with_slices on a Split without a size list, with
\* n outputs and length L along the axis, completes, removes the Split and
\* emits exactly n Slice nodes, the i-th (from 0) with starts [i*width],
\* ends [(i+1)*width] and axes [axis], where width = floor(L / n).
C5_EvenSplit ==
    last = "replace_split_with_slices" =>
        \A k \in 1..Len(pre.node) :
            IsEvenSplit(pre, pre.node[k]) =>
                LET n == pre.node[k]
                    axis == IF HasAttr(n, "axis") THEN LastAttr(n, "axis").i ELSE 0
                    length == OperandInfo(pre, n.input[1]).dim[axis + 1]
                    width == length \div Len(n.output)
                    slices == SelectSeq(g.node, LAMBDA m :
                                  m.op_type = "Slice" /\ m.input = <<n.input[1]>>)
                IN /\ status = "ok"
                   /\ ~Contains(g.node, n)
                   /\ Len(slices) = Len(n.output)
                   /\ \A i \in 1..Len(slices) :
                          /\ slices[i].output = <<n.output[i]>>
                          /\ LastAttr(slices[i], "starts").ints = <<(i - 1) * width>>
                          /\ LastAttr(slices[i], "ends").ints = <<i * width>>
                          /\ LastAttr(slices[i], "axes").ints = <<axis>>

\* A Shape node the fold applies to: its operand has a ValueInfo, among
\* the intermediate values or the graph inputs, with at least one dimension
\* and every dimension known.
IsFoldableShape(gr, n) ==
    /\ n.op_type = "Shape"
    /\ HasOperandInfo(gr, n.input[1])
    /\ Len(OperandInfo(gr, n.input[1]).dim) # 0
    /\ \A d \in 1..Len(OperandInfo(gr, n.input[1]).dim) :
           OperandInfo(gr, n.input[1]).dim[d] > 0

\* C6: replace_shape_with_constant completes whether the operand of a
\* folded Shape is an intermediate value or a graph input, and the
\* operand's ValueInfo is gone from the graph's metadata afterwards if and
\* only if exactly one node listed the operand among its inputs.
C6_ShapeReferenceCount ==
    last = "replace_shape_with_constant" =>
        \A k \in 1..Len(pre.node) :
            IsFoldableShape(pre, pre.node[k]) =>
                LET name == pre.node[k].input[1]
                    info == OperandInfo(pre, name)
                IN /\ status = "ok"
                   /\ (~Contains(g.value_info, info) /\ ~Contains(g.input, info))
                        <=> val_info_used(pre, name) = 1

\* C7: a second run of replace_average_pool_with_GAP,
\* replace_Reshape_with_Flatten or replace_split_with_slices, on the graph
\* a completed first run left, completes and changes nothing.
C7_Idempotence ==
    /\ Completed("replace_average_pool_with_GAP") =>
           /\ ~replace_average_pool_with_GAP(g).raised
           /\ replace_average_pool_with_GAP(g).g = g
    /\ Completed("replace_Reshape_with_Flatten") =>
           /\ ~replace_Reshape_with_Flatten(g).raised
           /\ replace_Reshape_with_Flatten(g).g = g
    /\ Completed("replace_split_with_slices") =>
           /\ ~replace_split_with_slices(g).raised
           /\ replace_split_with_slices(g).g = g

\* A completed first run of replace_average_pool_with_GAP that replaced an
\* AveragePool and left another graph than it found.
C7_Witness ==
    /\ Completed("replace_average_pool_with_GAP")
    /\ g # pre
    /\ \E k \in 1..Len(pre.node) :
           /\ pre.node[k].op_type = "AveragePool"
           /\ HasAttr(pre.node[k], "kernel_shape")
           /\ NodeNamed(g, pre.node[k].name).op_type = "GlobalAveragePool"

\* The nodes of gr that list the value name among their inputs.
Consumers(gr, name) ==
    {k \in 1..Len(gr.node) : Contains(gr.node[k].input, name)}

SoleConsumerIsGemm(gr, n) ==
    /\ Cardinality(Consumers(gr, n.output[1])) = 1
    /\ \A k \in Consumers(gr, n.output[1]) : gr.node[k].op_type = "Gemm"

\* Some node takes the output of n as its first input and is a Gemm.
SomeGemmTakesIt(gr, n) ==
    \E k \in 1..Len(gr.node) :
        /\ gr.node[k].op_type = "Gemm"
        /\ Len(gr.node[k].input) > 0
        /\ gr.node[k].input[1] = n.output[1]

ShapeFromConstant(gr, n) ==
    /\ Len(n.input) >= 2
    /\ find_node_by_output_name(gr, n.input[2]) # 0
    /\ Producer(gr, n.input[2]).op_type = "Constant"

\* The Reshape n of the graph before the pass is a Flatten after it.
Retagged(n) ==
    /\ n.name \in NodeNames(g)
    /\ NodeNamed(g, n.name).op_type = "Flatten"

\* The Constant producing the shape operand of n, and the ValueInfo of
\* that operand, are in the graph after the pass as they were before it.
ShapeConstantKept(n) ==
    ShapeFromConstant(pre, n) =>
        /\ Contains(g.node, Producer(pre, n.input[2]))
        /\ \A k \in 1..Len(pre.value_info) :
               pre.value_info[k].name = n.input[2]
                   => Contains(g.value_info, pre.value_info[k])

\* C8 as stated: replace_Reshape_with_Flatten retags a Reshape only when
\* its sole consumer is a Gemm and a Constant produces its shape operand;
\* every other Reshape, and its shape Constant, is left untouched.
C8_SoleConsumer ==
    Completed("replace_Reshape_with_Flatten") =>
        \A k \in 1..Len(pre.node) :
            LET n == pre.node[k]
            IN n.op_type = "Reshape" =>
                 /\ Retagged(n) =>
                        SoleConsumerIsGemm(pre, n) /\ ShapeFromConstant(pre, n)
                 /\ ~(SoleConsumerIsGemm(pre, n) /\ ShapeFromConstant(pre, n)) =>
                        Contains(g.node, n) /\ ShapeConstantKept(n)

\* Some Reshape the pass retags takes its shape from the same Constant as n.
SharesShapeWithRetagged(n) ==
    \E j \in 1..Len(pre.node) :
        /\ pre.node[j].op_type = "Reshape"
        /\ Len(pre.node[j].input) >= 2
        /\ pre.node[j].input[2] = n.input[2]
        /\ Retagged(pre.node[j])

\* C8, amended: replace_Reshape_with_Flatten retags a Reshape only when
\* some node taking its output as first input is a Gemm and a Constant
\* produces its shape operand; a retagged Reshape has lost its attributes
\* and its shape input and, when the pass completes, its shape Constant
\* is gone; every other Reshape is left untouched, and so is its shape
\* Constant unless a retagged Reshape shares it.
C8_SomeGemmConsumer ==
    last = "replace_Reshape_with_Flatten" =>
        \A k \in 1..Len(pre.node) :
            LET n == pre.node[k]
            IN n.op_type = "Reshape" =>
                 /\ Retagged(n) =>
                        /\ SomeGemmTakesIt(pre, n) /\ ShapeFromConstant(pre, n)
                        /\ NodeNamed(g, n.name) =
                               [n EXCEPT !.op_type = "Flatten",
                                         !.attribute = <<>>,
                                         !.input = <<n.input[1]>>]
                        /\ status = "ok" =>
                               /\ find_node_by_output_name(g, n.input[2]) = 0
                               /\ find_value_by_name(g, n.input[2]) = 0
                 /\ ~(SomeGemmTakesIt(pre, n) /\ ShapeFromConstant(pre, n)) =>
                        /\ Contains(g.node, n)
                        /\ ShapeConstantKept(n) \/ SharesShapeWithRetagged(n)

\* A completed run that retagged a Reshape consumed by a Gemm and by
\* another node, next to a Reshape it left alone.
C8_Witness ==
    /\ Completed("replace_Reshape_with_Flatten")
    /\ \E j, k \in 1..Len(pre.node) :
           /\ pre.node[j].op_type = "Reshape" /\ Retagged(pre.node[j])
           /\ Cardinality(Consumers(pre, pre.node[j].output[1])) = 2
           /\ pre.node[k].op_type = "Reshape" /\ Contains(g.node, pre.node[k])
           /\ ShapeConstantKept(pre.node[k])

\* A Conv the depthwise conversion applies to: group > 1, kernel_shape
\* [1, 1], pads absent or all zero, and a weight some node produces with
\* one channel per group.
IsDepthwise1x1(gr, n) ==
    /\ n.op_type = "Conv"
    /\ HasAttr(n, "group") /\ LastAttr(n, "group").i > 1
    /\ HasAttr(n, "kernel_shape") /\ LastAttr(n, "kernel_shape").ints = <<1, 1>>
    /\ HasAttr(n, "pads") =>
           \A k \in 1..Len(LastAttr(n, "pads").ints) : LastAttr(n, "pads").ints[k] = 0
    /\ find_node_by_output_name(gr, n.input[2]) # 0
    /\ Len(Producer(gr, n.input[2]).attribute[1].t.dims) = 4
    /\ Producer(gr, n.input[2]).attribute[1].t.dims[2] = 1

\* The value name is a vector of n copies of v produced by a Constant.
IsConstantVector(gr, name, n, v) ==
    /\ find_node_by_output_name(gr, name) # 0
    /\ Producer(gr, name).op_type = "Constant"
    /\ Producer(gr, name).attribute[1].t.dims = <<n>>
    /\ weight_of(Producer(gr, name).attribute[1].t) = [k \in 1..n |-> v]

\* The number of elements of the tensor that produces the value name.
LengthOf(gr, name) == Product(Producer(gr, name).attribute[1].t.dims)

\* C9: after replace_depthwise_1x1_with_bn completes, every Conv it applies
\* to is a BatchNormalization of the same name and outputs with inputs
\* [data, scale, bias, mean, variance]: scale is the weight, its tensor and
\* ValueInfo of shape [groups]; bias is the Conv's bias or else a zero
\* vector; mean is zeros, variance ones; all four have length groups.
C9_DepthwiseToBN ==
    Completed("replace_depthwise_1x1_with_bn") =>
        \A k \in 1..Len(pre.node) :
            IsDepthwise1x1(pre, pre.node[k]) =>
                LET n == pre.node[k]
                    groups == LastAttr(n, "group").i
                    bn == NodeNamed(g, n.name)
                IN /\ bn.op_type = "BatchNormalization"
                   /\ bn.output = n.output
                   /\ Len(bn.input) = 5
                   /\ bn.input[1] = n.input[1] /\ bn.input[2] = n.input[2]
                   /\ Producer(g, bn.input[2]).attribute[1].t.dims = <<groups>>
                   /\ find_value_by_name(pre, n.input[2]) # 0 =>
                          OperandInfo(g, n.input[2]).dim = <<groups>>
                   /\ IF Len(n.input) = 3 THEN bn.input[3] = n.input[3]
                      ELSE IsConstantVector(g, bn.input[3], groups, 0)
                   /\ IsConstantVector(g, bn.input[4], groups, 0)
                   /\ IsConstantVector(g, bn.input[5], groups, 1)
                   /\ \A i \in 2..5 : LengthOf(g, bn.input[i]) = groups

\* C10: replace_shape_with_constant leaves in the graph, unmodified, every
\* Shape node whose operand's ValueInfo has an unknown (zero) dimension,
\* and returns False when no Shape node has an operand with a fully known
\* shape.
C10_FoldOnlyKnownShapes ==
    Completed("replace_shape_with_constant") =>
        /\ \A k \in 1..Len(pre.node) :
               LET n == pre.node[k]
               IN (/\ n.op_type = "Shape"
                   /\ HasOperandInfo(pre, n.input[1])
                   /\ \E d \in 1..Len(OperandInfo(pre, n.input[1]).dim) :
                          OperandInfo(pre, n.input[1]).dim[d] = 0)
                      => Contains(g.node, n)
        /\ (\A k \in 1..Len(pre.node) : ~IsFoldableShape(pre, pre.node[k]))
               => ret = "False"

(***************************************************************************)
(* Where the failing properties do hold                                    *)
(***************************************************************************)

\* No two nodes of gr take the same value as their second input.
NoSharedOperand(gr) ==
    \A j, k \in 1..Len(gr.node) :
        (j # k /\ Len(gr.node[j].input) >= 2 /\ Len(gr.node[k].input) >= 2)
            => gr.node[j].input[2] # gr.node[k].input[2]

\* The expansion of C4 is exact whenever no weight is shared.
DilationExpansion_UnsharedWeight ==
    NoSharedOperand(pre) => C4_DilationExpansion

\* The reference count of C6 is as stated whenever the pass completes.
ShapeReferenceCount_WhenCompleted ==
    status = "ok" => C6_ShapeReferenceCount

\* The BatchNormalization of C9 is as stated whenever the weight has
\* exactly groups output channels.
DepthwiseToBN_OneChannelPerGroup ==
    (\A k \in 1..Len(pre.node) :
        IsDepthwise1x1(pre, pre.node[k]) =>
            Producer(pre, pre.node[k].input[2]).attribute[1].t.dims[1]
                = LastAttr(pre.node[k], "group").i)
        => C9_DepthwiseToBN

====
